---- MODULE Spec2Model ----
(***************************************************************************)
(* Verification model of the egui video player core (src/src/player):      *)
(* CircularBuffer, AudioClock, AudioSource, VideoFrameQueue, the decoder   *)
(* worker (decode_loop) and the VideoPlayer facade.                        *)
(*                                                                         *)
(* Time is counted in units of 20 ms.  The file under play is sampled at   *)
(* 1280 Hz stereo, so that one advance_samples(256) call moves the clock   *)
(* by exactly five units: 256 * 1e6 / (1280 * 2) us = 100000 us.           *)
(***************************************************************************)
EXTENDS Integers, Sequences, FiniteSets, TLC

VARIABLES
    \* ---- CircularBuffer under test (SpecBuf) ----
    cb_cap,         \* CircularBuffer.capacity
    cb_buf,         \* CircularBuffer.inner (VecDeque), front first
    cb_last,        \* history: the last operation, its arguments and result
    \* ---- AudioClock (shared atomics) ----
    position_us,    \* AudioClock.position_us
    clock_paused,   \* AudioClock.paused
    clear_buffer,   \* AudioClock.clear_buffer
    \* ---- AudioClock under test (SpecClock) ----
    adv_pc,         \* audio thread inside advance_samples: "idle" or "add"
    n_set,          \* history: number of set_position calls
    n_true,         \* history: number of should_clear_buffer calls that returned true
    ck_since,       \* history: set_position calls since the last should_clear_buffer
    ck_last,        \* history: the last should_clear_buffer call
    \* ---- VideoFrameQueue and the video channel ----
    video_chan,     \* frames in the bounded video channel, oldest first
    buffer,         \* VideoFrameQueue.buffer (VecDeque), front first
    current_frame,  \* VideoFrameQueue.current_frame (NoFrame for None)
    \* ---- VideoFrameQueue under test (SpecQueue) ----
    q_sent,         \* number of frames the producer has sent
    q_lastpts,      \* pts of the last frame sent
    q_clock,        \* the clock value of the last get_display_frame call
    q_last,         \* history: the last get_display_frame call
    shown,          \* history: the frames made current, in call order
    \* ---- VideoPlayer facade ----
    state,          \* VideoPlayer.state: "Stopped", "Playing" or "Paused"
    seeking,        \* VideoPlayer.seeking
    seek_target,    \* VideoPlayer.seek_target
    sink_playing,   \* the rodio Sink: TRUE after play(), FALSE after pause()
    published,      \* the frame update() last set the texture to since the last seek()
    fpc,            \* where the facade thread is
    ops_left,       \* play/pause/stop/seek calls the client will still make
    \* ---- shared between the threads ----
    cmd_chan,       \* the bounded command channel, oldest first
    stop_flag,      \* the shared stop flag
    audio_buffer,   \* the shared CircularBuffer<f32>, in batches of 256 samples
    \* ---- decoder worker (decode_loop) ----
    wpc,            \* where the worker thread is
    paused,         \* decode_loop's paused
    pending_seek,   \* decode_loop's pending_seek (NoSeek for None)
    at_eof,         \* decode_loop's at_eof
    rd,             \* demuxer position: index of the next packet to read
    dec,            \* frames the video decoder holds back (codec delay)
    held,           \* the frame the send loop holds
    codec_delay,    \* how many frames the video decoder holds back
    audio_stream_index, \* decode_loop's audio_stream_index: None or the stream's index
    seekable,       \* whether input.seek() succeeds on the file under play
    fault,          \* the packet of the file whose decoding fails, and the failing stage
    error_chan,     \* the bounded error channel, oldest first
    \* ---- AudioSource under test (SpecAudio) ----
    samples_consumed, \* AudioSource.samples_consumed
    as_last,        \* history: the last next() call: its arm, the sample returned, the samples advanced
    \* ---- history of the run ----
    w_epoch,        \* number of the last Seek command the worker handled
    seek_seq,       \* number of seek() calls made so far
    burst_lo,       \* number of the first seek() of the latest back-to-back run
    last_was_seek,  \* the facade's last call was seek()
    since_play,     \* only update() calls were made since the last play()
    eos_seen        \* the facade's last call was an update() that found the stream at its end

bufvars == <<cb_cap, cb_buf, cb_last>>

clockvars == <<position_us, clock_paused, clear_buffer>>

clockhist == <<adv_pc, n_set, n_true, ck_since, ck_last>>

queuevars == <<video_chan, buffer, current_frame>>

queuehist == <<q_sent, q_lastpts, q_clock, q_last, shown>>

facadevars == <<state, seeking, seek_target, sink_playing, published, fpc, ops_left>>

sharedvars == <<cmd_chan, stop_flag, audio_buffer>>

workervars == <<wpc, paused, pending_seek, at_eof, rd, dec, held, codec_delay,
                audio_stream_index, seekable, fault,
                   error_chan, fault, error_chan>>

runhist == <<w_epoch, seek_seq, burst_lo, last_was_seek, since_play, eos_seen>>

audiovars == <<samples_consumed, as_last>>

sysvars == <<facadevars, sharedvars, workervars, runhist, audiovars>>

vars == <<bufvars, clockvars, clockhist, queuevars, queuehist, sysvars>>

(***************************************************************************)
(* Generic helpers                                                         *)
(***************************************************************************)
Min(a, b) == IF a <= b THEN a ELSE b

Max(a, b) == IF a >= b THEN a ELSE b

\* The last n elements of s (all of s when n >= Len(s)).
LastN(s, n) == SubSeq(s, Len(s) - Min(n, Len(s)) + 1, Len(s))

\* s without its first n elements.
DropN(s, n) == SubSeq(s, n + 1, Len(s))

\* All sequences over S of length at most n.
SeqsUpTo(S, n) == UNION {[1..k -> S] : k \in 0..n}

(***************************************************************************)
(* CircularBuffer<T>  (src/src/player/circular_buffer.rs)                  *)
(* Every method takes the mutex for its whole body, so each is one atomic  *)
(* step on the VecDeque.                                                   *)
(***************************************************************************)
\* Bounds of the buffer under test.
MaxCap == 3

MaxSlice == 3

NumItems == 2

None == 0

Items == 1..NumItems

\* VecDeque::pop_front as used for its effect: a no-op on an empty deque.
pop_front(buf) == IF buf = <<>> THEN buf ELSE Tail(buf)

\* CircularBuffer::push
push(buf, cap, item) ==
    LET b1 == IF Len(buf) >= cap THEN pop_front(buf) ELSE buf
    IN  Append(b1, item)

\* CircularBuffer::push_slice
push_slice_evict_short(buf, cap, items) ==
    LET items_len == Len(items)
    IN  IF items_len >= cap
        THEN SubSeq(items, items_len - cap + 1, items_len)
        ELSE LET available == cap - Len(buf)
                 b1 == IF items_len > available
                       THEN DropN(buf, items_len - available - 1)
                       ELSE buf
             IN  b1 \o items

push_slice(buf, cap, items) ==
    LET items_len == Len(items)
    IN  IF items_len >= cap
        THEN \* buf.clear(); buf.extend(items[items_len - capacity..])
             SubSeq(items, items_len - cap + 1, items_len)
        ELSE LET available == cap - Len(buf)
                 b1 == IF items_len > available
                       THEN DropN(buf, items_len - available)   \* buf.drain(..to_remove)
                       ELSE buf
             IN  b1 \o items

\* CircularBuffer::try_pop: the value (None when empty) and the buffer left.
try_pop(buf) ==
    IF buf = <<>> THEN [val |-> None, buf |-> buf]
                  ELSE [val |-> Head(buf), buf |-> Tail(buf)]

\* CircularBuffer::clear
cb_clear(buf) == <<>>

\* CircularBuffer::len
len(buf) == Len(buf)

\* try_pop repeated until it returns None: the values returned, None last.
RECURSIVE Drain(_)
Drain(buf) ==
    LET r == try_pop(buf)
    IN  IF r.val = None THEN <<None>> ELSE <<r.val>> \o Drain(r.buf)

NoOp == [op |-> "new", items |-> <<>>, old |-> <<>>, ret |-> None]

\* The buffer under test when another specification runs.
BufIdle ==
    /\ cb_cap = 0
    /\ cb_buf = <<>>
    /\ cb_last = NoOp

BufPush ==
    \E x \in Items :
        /\ cb_buf' = push(cb_buf, cb_cap, x)
        /\ cb_last' = [op |-> "push", items |-> <<x>>, old |-> cb_buf, ret |-> None]
        /\ UNCHANGED <<cb_cap, clockvars, clockhist, queuevars, queuehist, sysvars>>

BufPushSlice ==
    \E s \in SeqsUpTo(Items, MaxSlice) :
        /\ cb_buf' = push_slice(cb_buf, cb_cap, s)
        /\ cb_last' = [op |-> "push_slice", items |-> s, old |-> cb_buf, ret |-> None]
        /\ UNCHANGED <<cb_cap, clockvars, clockhist, queuevars, queuehist, sysvars>>

BufTryPop ==
    LET r == try_pop(cb_buf)
    IN  /\ cb_buf' = r.buf
        /\ cb_last' = [op |-> "try_pop", items |-> <<>>, old |-> cb_buf, ret |-> r.val]
        /\ UNCHANGED <<cb_cap, clockvars, clockhist, queuevars, queuehist, sysvars>>

BufClear ==
    /\ cb_buf' = cb_clear(cb_buf)
    /\ cb_last' = [op |-> "clear", items |-> <<>>, old |-> cb_buf, ret |-> None]
    /\ UNCHANGED <<cb_cap, clockvars, clockhist, queuevars, queuehist, sysvars>>

(***************************************************************************)
(* AudioClock  (src/src/player/clock.rs)                                   *)
(* position_us is kept in microseconds; the times handed to and read from  *)
(* the clock (seconds in the code) are counted in ticks of TickUs.         *)
(***************************************************************************)
TickUs == 20000

SampleRate == 1280

Channels == 2

BatchSamples == 256

\* AudioClock::position: position_us / 1e6 seconds, here in whole ticks.
position(us) == us \div TickUs

\* AudioClock::set_position: (seconds * 1e6) as u64.
seconds_to_us(t) == t * TickUs

\* AudioClock::advance_samples: (samples * (1e6 / (sample_rate * channels))) as u64.
delta_us(samples) == (samples * 1000000) \div (SampleRate * Channels)

\* AudioClock::should_clear_buffer: clear_buffer.swap(false); the value
\* returned and the flag left behind.
should_clear_buffer_load(flag) == [ret |-> flag, flag |-> flag]

should_clear_buffer(flag) == [ret |-> flag, flag |-> FALSE]

\* AudioClock::new
ClockNew ==
    /\ position_us = 0
    /\ clock_paused = TRUE
    /\ clear_buffer = FALSE

NoCheck == [called |-> FALSE, ret |-> FALSE, since |-> 0]

ClockHistIdle ==
    /\ adv_pc = "idle"
    /\ n_set = 0
    /\ n_true = 0
    /\ ck_since = 0
    /\ ck_last = NoCheck

\* Bounds of the clock under test.
MaxSetCalls == 3

MaxAdvances == 3

ClockTargets == {0, 2}

\* set_position, called by the facade (seek, update) or by the worker: the
\* position store and the flag store.
ClkSetPosition ==
    \E t \in ClockTargets :
        /\ n_set < MaxSetCalls
        /\ position_us' = seconds_to_us(t)
        /\ clear_buffer' = TRUE
        /\ n_set' = n_set + 1
        /\ ck_since' = ck_since + 1
        /\ UNCHANGED <<clock_paused, adv_pc, n_true, ck_last, bufvars, queuevars, queuehist, sysvars>>

\* should_clear_buffer, called by the audio thread at the start of next().
ClkShouldClear ==
    LET r == should_clear_buffer(clear_buffer)
    IN  /\ adv_pc = "idle"
        /\ clear_buffer' = r.flag
        /\ n_true' = IF r.ret THEN n_true + 1 ELSE n_true
        /\ ck_last' = [called |-> TRUE, ret |-> r.ret, since |-> ck_since]
        /\ ck_since' = 0
        /\ UNCHANGED <<position_us, clock_paused, adv_pc, n_set, bufvars, queuevars, queuehist, sysvars>>

\* advance_samples, first half: the audio thread loads the paused flag.
ClkAdvanceLoad ==
    /\ adv_pc = "idle"
    /\ ~clock_paused
    /\ adv_pc' = "add"
    /\ UNCHANGED <<clockvars, n_set, n_true, ck_since, ck_last, bufvars, queuevars, queuehist, sysvars>>

\* advance_samples, second half: position_us.fetch_add(delta_us).
ClkAdvanceAdd ==
    /\ adv_pc = "add"
    /\ position_us < MaxAdvances * delta_us(BatchSamples)
    /\ position_us' = position_us + delta_us(BatchSamples)
    /\ adv_pc' = "idle"
    /\ UNCHANGED <<clock_paused, clear_buffer, n_set, n_true, ck_since, ck_last, bufvars, queuevars, queuehist, sysvars>>

\* AudioClock::pause, called by the worker on a Pause command.
ClkPause ==
    /\ clock_paused' = TRUE
    /\ UNCHANGED <<position_us, clear_buffer, clockhist, bufvars, queuevars, queuehist, sysvars>>

\* AudioClock::resume, called by the worker on a Resume command.
ClkResume ==
    /\ clock_paused' = FALSE
    /\ UNCHANGED <<position_us, clear_buffer, clockhist, bufvars, queuevars, queuehist, sysvars>>

(***************************************************************************)
(* VideoFrameQueue  (src/src/player/video.rs)                              *)
(* A frame is [pts, tag]: pts in ticks, tag a label the model adds (the    *)
(* serial number of the frame, or the decoding epoch it was decoded in).   *)
(***************************************************************************)
DROP_THRESHOLD == 1

HOLD_THRESHOLD == 1

SEEK_TOLERANCE == 25

\* update(): audio_time >= self.duration - 0.1
EOS_MARGIN == 5

\* Bounds standing for bounded(30) and VideoFrameQueue::new(_, 30).
ChanCap == 2

MaxBufferSize == 2

NoFrame == [pts |-> -1, tag |-> -1]

\* VideoFrameQueue::new
QueueNew ==
    /\ video_chan = <<>>
    /\ buffer = <<>>
    /\ current_frame = NoFrame

\* The element of a one-element set; binds an intermediate result once.
The(S) == CHOOSE x \in S : TRUE

\* VideoFrameQueue::receive_frames: try_recv until the buffer holds
\* max_buffer_size frames or the channel is empty.
receive_frames_unbounded(buf, chan) ==
    [buffer |-> buf \o chan, chan |-> <<>>]

receive_frames(buf, chan) ==
    LET k == Min(Len(chan), Max(0, MaxBufferSize - Len(buf)))
    IN  [buffer |-> buf \o SubSeq(chan, 1, k), chan |-> DropN(chan, k)]

\* while let Some(frame) = buffer.front() { if frame.pts < limit { pop_front } else { break } }
RECURSIVE drop_before(_, _)
drop_before(buf, limit) ==
    IF buf # <<>> /\ Head(buf).pts < limit
    THEN drop_before(Tail(buf), limit)
    ELSE buf

\* VideoFrameQueue::get_display_frame: the queue after the call, the frames
\* assigned to current_frame during it, and the frame returned.
get_display_frame_no_hold(buf, cur, chan, audio_time) ==
    LET r == receive_frames(buf, chan)
        b1 == drop_before(r.buffer, audio_time - DROP_THRESHOLD)
        show == b1 # <<>>
        c1 == IF show THEN Head(b1) ELSE cur
    IN  [buffer |-> IF show THEN Tail(b1) ELSE b1,
         current |-> c1,
         chan |-> r.chan,
         selected |-> IF show THEN <<Head(b1)>> ELSE <<>>,
         ret |-> c1]

get_display_frame_no_pop(buf, cur, chan, audio_time) ==
    LET r == receive_frames(buf, chan)
        b1 == drop_before(r.buffer, audio_time - DROP_THRESHOLD)
        show == b1 # <<>> /\ Head(b1).pts <= audio_time + HOLD_THRESHOLD
        c1 == IF show THEN Head(b1) ELSE cur
    IN  [buffer |-> b1,
         current |-> c1,
         chan |-> r.chan,
         selected |-> IF show THEN <<Head(b1)>> ELSE <<>>,
         ret |-> c1]

get_display_frame_only_new(buf, cur, chan, audio_time) ==
    The({ The({ \* Check if next frame should be shown
                IF b1 # <<>> /\ Head(b1).pts <= audio_time + HOLD_THRESHOLD
                THEN [buffer |-> Tail(b1),
                      current |-> Head(b1),
                      chan |-> r.chan,
                      selected |-> <<Head(b1)>>,
                      ret |-> Head(b1)]
                ELSE [buffer |-> b1,
                      current |-> cur,
                      chan |-> r.chan,
                      selected |-> <<>>,
                      ret |-> NoFrame]
                \* Drop frames that are too late
              : b1 \in {drop_before(r.buffer, audio_time - DROP_THRESHOLD)} })
        : r \in {receive_frames(buf, chan)} })

get_display_frame_forget_current(buf, cur, chan, audio_time) ==
    The({ The({ \* Check if next frame should be shown
                IF b1 # <<>> /\ Head(b1).pts <= audio_time + HOLD_THRESHOLD
                THEN [buffer |-> Tail(b1),
                      current |-> Head(b1),
                      chan |-> r.chan,
                      selected |-> <<Head(b1)>>,
                      ret |-> Head(b1)]
                ELSE [buffer |-> b1,
                      current |-> NoFrame,
                      chan |-> r.chan,
                      selected |-> <<>>,
                      ret |-> NoFrame]
                \* Drop frames that are too late
              : b1 \in {drop_before(r.buffer, audio_time - DROP_THRESHOLD)} })
        : r \in {receive_frames(buf, chan)} })

get_display_frame(buf, cur, chan, audio_time) ==
    The({ The({ \* Check if next frame should be shown
                IF b1 # <<>> /\ Head(b1).pts <= audio_time + HOLD_THRESHOLD
                THEN [buffer |-> Tail(b1),
                      current |-> Head(b1),
                      chan |-> r.chan,
                      selected |-> <<Head(b1)>>,
                      ret |-> Head(b1)]
                ELSE [buffer |-> b1,
                      current |-> cur,
                      chan |-> r.chan,
                      selected |-> <<>>,
                      ret |-> cur]
                \* Drop frames that are too late
              : b1 \in {drop_before(r.buffer, audio_time - DROP_THRESHOLD)} })
        : r \in {receive_frames(buf, chan)} })

\* VideoFrameQueue::get_first_frame_after_seek
get_first_frame_after_seek_no_take(buf, cur, chan, target) ==
    LET r == receive_frames(buf, chan)
        b1 == drop_before(r.buffer, target - SEEK_TOLERANCE)
    IN  [buffer |-> b1,
         current |-> cur,
         chan |-> r.chan,
         ret |-> cur]

get_first_frame_after_seek(buf, cur, chan, target) ==
    The({ The({ IF b1 # <<>>
                THEN [buffer |-> Tail(b1),
                      current |-> Head(b1),
                      chan |-> r.chan,
                      ret |-> Head(b1)]
                ELSE [buffer |-> b1,
                      current |-> cur,
                      chan |-> r.chan,
                      ret |-> cur]
              : b1 \in {drop_before(r.buffer, target - SEEK_TOLERANCE)} })
        : r \in {receive_frames(buf, chan)} })

\* VideoFrameQueue::clear: buffer, current frame and channel emptied.
queue_clear == [buffer |-> <<>>, current |-> NoFrame, chan |-> <<>>]

\* VideoFrameQueue::is_empty
is_empty(buf, cur, chan) == buf = <<>> /\ cur = NoFrame /\ chan = <<>>

\* Bounds of the queue under test.
QMaxPts == 4

QMaxFrames == 4

NoCall ==
    [called |-> FALSE, T |-> 0, all |-> <<>>, cur |-> NoFrame, selected |-> <<>>,
     buffer |-> <<>>, chan |-> <<>>, current |-> NoFrame, ret |-> NoFrame]

QueueHistIdle ==
    /\ q_sent = 0
    /\ q_lastpts = 0
    /\ q_clock = 0
    /\ q_last = NoCall
    /\ shown = <<>>

\* The producer sends the next frame, in non-decreasing PTS order.
QDeliver ==
    \E p \in q_lastpts..QMaxPts :
        /\ q_sent < QMaxFrames
        /\ Len(video_chan) < ChanCap
        /\ video_chan' = Append(video_chan, [pts |-> p, tag |-> q_sent + 1])
        /\ q_sent' = q_sent + 1
        /\ q_lastpts' = p
        /\ UNCHANGED <<buffer, current_frame, q_clock, q_last, shown,
                       bufvars, clockvars, clockhist, sysvars>>

\* get_display_frame(T) for a clock value T that never goes back.
QGetDisplayFrame ==
    \E T \in q_clock..(QMaxPts + 2) :
        LET r == get_display_frame(buffer, current_frame, video_chan, T)
        IN  /\ buffer' = r.buffer
            /\ current_frame' = r.current
            /\ video_chan' = r.chan
            /\ q_clock' = T
            /\ q_last' = [called |-> TRUE, T |-> T, all |-> buffer \o video_chan,
                          cur |-> current_frame, selected |-> r.selected,
                          buffer |-> r.buffer, chan |-> r.chan, current |-> r.current,
                          ret |-> r.ret]
            /\ shown' = shown \o r.selected
            /\ UNCHANGED <<q_sent, q_lastpts, bufvars, clockvars, clockhist, sysvars>>

(***************************************************************************)
(* The media file and the codec service                                    *)
(* The file is a sequence of packets.  A video packet decodes to one frame *)
(* with the given pts; an audio packet resamples to n batches of 256       *)
(* samples.  Only the first video packet is a key frame, so every demuxer  *)
(* seek lands on packet 1.  In a file without an audio stream              *)
(* (audio_stream_index = None) the packets that are not video belong to a  *)
(* stream the worker reads and skips.                                      *)
(***************************************************************************)
Packets ==
    << [kind |-> "video", pts |-> 0,  n |-> 0],
       [kind |-> "audio", pts |-> 0,  n |-> 3],
       [kind |-> "video", pts |-> 1,  n |-> 0],
       [kind |-> "video", pts |-> 25, n |-> 0],
       [kind |-> "audio", pts |-> 0,  n |-> 3],
       [kind |-> "video", pts |-> 26, n |-> 0] >>

KeyPackets == {1}

\* A fault of the file: decoding packet pkt fails at the given stage
\* ("send_packet", "scaler" or "resampler").  NoFault: every packet decodes.
NoFault == [pkt |-> 0, stage |-> "none"]

\* MediaInfo.duration, in ticks.
Duration == 28

\* input.seek(target_ts, ..target_ts): the last key frame at or before the target.
demux_seek(target) ==
    LET ok == {i \in KeyPackets : Packets[i].pts <= target}
    IN  CHOOSE i \in ok : \A j \in ok : j <= i

\* n copies of x.
Repeat(x, n) == [i \in 1..n |-> x]

\* CircularBuffer::new(sample_rate * channels * 2), counted in batches.
AudioCapacity == (SampleRate * Channels * 2) \div BatchSamples

(***************************************************************************)
(* Commands (DecoderCommand).  seq numbers the Seek commands in the order  *)
(* seek() issued them; the code does not carry it.                         *)
(***************************************************************************)
NoSeek == [t |-> -1, seq |-> 0]

Cmd(op, t, seq) == [op |-> op, t |-> t, seq |-> seq]

\* bounded(16)
CMD_CAPACITY == 16

\* The variables of the component specifications, untouched by the player.
testvars == <<bufvars, clockhist, queuehist, audiovars>>

(***************************************************************************)
(* Decoder worker: decode_loop  (src/src/player/decoder.rs)                *)
(* wpc: "top" (stop check), "drain" (drain commands), "seek" (pending seek *)
(* and the paused / EOF test), "read" (read and decode one packet),        *)
(* "poll" and "send" (the send-retry loop), "flush" (after the main loop), *)
(* "exited".                                                               *)
(***************************************************************************)
\* Bound: the frames the video decoder may hold back.
MaxCodecDelay == 1

WorkerNew ==
    /\ wpc = "top"
    /\ paused = TRUE
    /\ pending_seek = NoSeek
    /\ at_eof = FALSE
    /\ rd = 1
    /\ dec = <<>>
    /\ held = NoFrame
    /\ w_epoch = 0

\* if stop_flag.load() { break }
WTop ==
    /\ wpc = "top"
    /\ wpc' = IF stop_flag THEN "flush" ELSE "drain"
    /\ UNCHANGED <<paused, pending_seek, at_eof, rd, dec, held, codec_delay, audio_stream_index, seekable, fault,
                   error_chan,
                   facadevars, sharedvars, runhist, clockvars, queuevars, testvars>>

\* One command_receiver.try_recv() of the drain loop.
WDrain ==
    /\ wpc = "drain"
    /\ IF cmd_chan = <<>>
       THEN \* Err(TryRecvError::Empty) => break
            /\ wpc' = "seek"
            /\ UNCHANGED <<cmd_chan, paused, clock_paused, pending_seek>>
       ELSE LET c == Head(cmd_chan)
            IN  /\ cmd_chan' = Tail(cmd_chan)
                /\ wpc' = IF c.op = "Stop" THEN "exited" ELSE "drain"
                /\ paused' = CASE c.op = "Pause" -> TRUE
                                [] c.op = "Resume" -> FALSE
                                [] OTHER -> paused
                /\ clock_paused' = CASE c.op = "Pause" -> TRUE
                                      [] c.op = "Resume" -> FALSE
                                      [] OTHER -> clock_paused
                /\ pending_seek' = IF c.op = "Seek" THEN [t |-> c.t, seq |-> c.seq]
                                                    ELSE pending_seek
    /\ UNCHANGED <<at_eof, rd, dec, held, codec_delay, audio_stream_index, seekable, fault,
                   error_chan, facadevars, stop_flag,
                   audio_buffer, runhist, position_us, clear_buffer, queuevars, testvars>>

\* if let Some(target) = pending_seek.take() { seek, flush, set_position, at_eof = false }
\* if paused || at_eof { sleep(10 ms); continue }
WSeek_ignore_paused ==
    /\ wpc = "seek"
    /\ IF pending_seek # NoSeek /\ seekable
       THEN \* input.seek(..).is_ok()
            /\ rd' = demux_seek(pending_seek.t)
            /\ dec' = <<>>
            /\ position_us' = seconds_to_us(pending_seek.t)
            /\ clear_buffer' = TRUE
            /\ at_eof' = FALSE
            /\ w_epoch' = pending_seek.seq
       ELSE UNCHANGED <<rd, dec, position_us, clear_buffer, at_eof, w_epoch>>
    /\ pending_seek' = NoSeek
    /\ wpc' = IF at_eof' THEN "top" ELSE "read"
    /\ UNCHANGED <<paused, held, codec_delay, audio_stream_index, seekable, fault,
                   error_chan, facadevars, sharedvars, clock_paused,
                   seek_seq, burst_lo, last_was_seek, since_play, eos_seen, queuevars,
                   testvars>>

WSeek ==
    /\ wpc = "seek"
    /\ IF pending_seek # NoSeek /\ seekable
       THEN \* input.seek(..).is_ok()
            /\ rd' = demux_seek(pending_seek.t)
            /\ dec' = <<>>
            /\ position_us' = seconds_to_us(pending_seek.t)
            /\ clear_buffer' = TRUE
            /\ at_eof' = FALSE
            /\ w_epoch' = pending_seek.seq
       ELSE UNCHANGED <<rd, dec, position_us, clear_buffer, at_eof, w_epoch>>
    /\ pending_seek' = NoSeek
    /\ wpc' = IF paused \/ at_eof' THEN "top" ELSE "read"
    /\ UNCHANGED <<paused, held, codec_delay, audio_stream_index, seekable, fault,
                   error_chan, facadevars, sharedvars, clock_paused,
                   seek_seq, burst_lo, last_was_seek, since_play, eos_seen, queuevars,
                   testvars>>

\* packet.read(&mut input) and the decode of the packet read.
WRead ==
    /\ wpc = "read"
    /\ IF rd > Len(Packets)
       THEN \* Err(Eof) => { at_eof = true; continue }
            /\ at_eof' = TRUE
            /\ wpc' = "top"
            /\ UNCHANGED <<rd, dec, held, audio_buffer, error_chan>>
       ELSE LET pkt == Packets[rd]
                failed == fault.pkt = rd /\ (pkt.kind = "video" \/ audio_stream_index # None)
            IN  /\ rd' = rd + 1
                /\ at_eof' = at_eof
                /\ IF failed /\ fault.stage # "resampler"
                   THEN \* send_packet(&packet)? or scaler.run(..)?: decode_loop returns
                        \* the error and the thread's closure sends it on the error channel
                        /\ wpc' = "exited"
                        /\ error_chan' = Append(error_chan, "Decoder error")
                        /\ UNCHANGED <<dec, held, audio_buffer>>
                   ELSE /\ error_chan' = error_chan
                        /\ IF pkt.kind = "video"
                           THEN \* send_packet, then receive_frame while the decoder has one
                                LET d1 == Append(dec, [pts |-> pkt.pts, tag |-> w_epoch])
                                IN  /\ IF Len(d1) > codec_delay
                                       THEN /\ held' = Head(d1)
                                            /\ dec' = Tail(d1)
                                            /\ wpc' = "poll"
                                       ELSE /\ held' = held
                                            /\ dec' = d1
                                            /\ wpc' = "top"
                                    /\ UNCHANGED audio_buffer
                           ELSE \* if let Some(audio_idx) = audio_stream_index:
                                \* if resampler.run(..).is_ok() { audio_buffer.push_slice(samples) }
                                /\ audio_buffer' = IF audio_stream_index = None \/ failed
                                                   THEN audio_buffer
                                                   ELSE push_slice(audio_buffer, AudioCapacity,
                                                                   Repeat(w_epoch, pkt.n))
                                /\ wpc' = "top"
                                /\ UNCHANGED <<dec, held>>
    /\ UNCHANGED <<paused, pending_seek, codec_delay, audio_stream_index, seekable, fault, facadevars,
                   cmd_chan, stop_flag, runhist, clockvars, queuevars, testvars>>

\* The command_receiver.try_recv() that precedes every send attempt.
WPoll_no_clock ==
    /\ wpc = "poll"
    /\ IF cmd_chan = <<>>
       THEN /\ wpc' = "send"
            /\ UNCHANGED <<cmd_chan, paused, clock_paused, pending_seek, held>>
       ELSE LET c == Head(cmd_chan)
            IN  /\ cmd_chan' = Tail(cmd_chan)
                /\ wpc' = CASE c.op = "Stop" -> "exited"
                             [] c.op = "Seek" -> "top"      \* break 'frame_loop
                             [] OTHER -> "send"
                /\ paused' = CASE c.op = "Pause" -> TRUE
                                [] c.op = "Resume" -> FALSE
                                [] OTHER -> paused
                /\ clock_paused' = clock_paused
                /\ pending_seek' = IF c.op = "Seek" THEN [t |-> c.t, seq |-> c.seq]
                                                    ELSE pending_seek
                /\ held' = IF c.op = "Seek" THEN NoFrame ELSE held
    /\ UNCHANGED <<at_eof, rd, dec, codec_delay, audio_stream_index, seekable, fault,
                   error_chan, facadevars, stop_flag, audio_buffer,
                   runhist, position_us, clear_buffer, queuevars, testvars>>

WPoll ==
    /\ wpc = "poll"
    /\ IF cmd_chan = <<>>
       THEN /\ wpc' = "send"
            /\ UNCHANGED <<cmd_chan, paused, clock_paused, pending_seek, held>>
       ELSE LET c == Head(cmd_chan)
            IN  /\ cmd_chan' = Tail(cmd_chan)
                /\ wpc' = CASE c.op = "Stop" -> "exited"
                             [] c.op = "Seek" -> "top"      \* break 'frame_loop
                             [] OTHER -> "send"
                /\ paused' = CASE c.op = "Pause" -> TRUE
                                [] c.op = "Resume" -> FALSE
                                [] OTHER -> paused
                /\ clock_paused' = CASE c.op = "Pause" -> TRUE
                                      [] c.op = "Resume" -> FALSE
                                      [] OTHER -> clock_paused
                /\ pending_seek' = IF c.op = "Seek" THEN [t |-> c.t, seq |-> c.seq]
                                                    ELSE pending_seek
                /\ held' = IF c.op = "Seek" THEN NoFrame ELSE held
    /\ UNCHANGED <<at_eof, rd, dec, codec_delay, audio_stream_index, seekable, fault,
                   error_chan, facadevars, stop_flag, audio_buffer,
                   runhist, position_us, clear_buffer, queuevars, testvars>>

\* video_sender.try_send(frame): Ok ends the send loop, Full sleeps 1 ms and retries.
WSend_drop_when_full ==
    /\ wpc = "send"
    /\ video_chan' = IF Len(video_chan) < ChanCap THEN Append(video_chan, held) ELSE video_chan
    /\ held' = NoFrame
    /\ wpc' = "top"
    /\ UNCHANGED <<paused, pending_seek, at_eof, rd, dec, codec_delay, audio_stream_index, seekable, fault,
                   error_chan, facadevars,
                   sharedvars, runhist, clockvars, buffer, current_frame, testvars>>

WSend ==
    /\ wpc = "send"
    /\ IF Len(video_chan) < ChanCap
       THEN /\ video_chan' = Append(video_chan, held)
            /\ held' = NoFrame
            /\ wpc' = "top"
       ELSE /\ wpc' = "poll"
            /\ UNCHANGED <<video_chan, held>>
    /\ UNCHANGED <<paused, pending_seek, at_eof, rd, dec, codec_delay, audio_stream_index, seekable, fault,
                   error_chan, facadevars,
                   sharedvars, runhist, clockvars, buffer, current_frame, testvars>>

\* After the main loop: send_eof, then a blocking video_sender.send for
\* every frame the decoder still held; the thread ends when none is left.
WFlush ==
    /\ wpc = "flush"
    /\ IF dec = <<>>
       THEN /\ wpc' = "exited"
            /\ UNCHANGED <<video_chan, dec>>
       ELSE /\ Len(video_chan) < ChanCap
            /\ video_chan' = Append(video_chan, Head(dec))
            /\ dec' = Tail(dec)
            /\ wpc' = "flush"
    /\ UNCHANGED <<paused, pending_seek, at_eof, rd, held, codec_delay, audio_stream_index, seekable, fault,
                   error_chan, facadevars,
                   sharedvars, runhist, clockvars, buffer, current_frame, testvars>>

\* The main loop, and the whole thread.
WorkerLoop == WTop \/ WDrain \/ WSeek \/ WRead \/ WPoll \/ WSend

WorkerNext == WorkerLoop \/ WFlush

(***************************************************************************)
(* Audio output thread: AudioSource::next  (src/src/player/audio.rs),      *)
(* pulled by the sink while it plays.  One step stands for the pulls of    *)
(* one batch of 256 samples: the pull that sees the clear flag empties the *)
(* buffer, otherwise 256 samples are popped and advance_samples(256) is    *)
(* called.  An underrun changes nothing.                                   *)
(***************************************************************************)
AudioNext ==
    /\ sink_playing
    /\ fpc # "dropped"
    /\ LET r == should_clear_buffer(clear_buffer)
       IN  IF r.ret
           THEN /\ clear_buffer' = r.flag
                /\ audio_buffer' = cb_clear(audio_buffer)
                /\ UNCHANGED position_us
           ELSE /\ audio_buffer # <<>>
                /\ audio_buffer' = try_pop(audio_buffer).buf
                /\ position_us' = IF clock_paused THEN position_us
                                   ELSE position_us + delta_us(BatchSamples)
                /\ UNCHANGED clear_buffer
    /\ UNCHANGED <<clock_paused, facadevars, cmd_chan, stop_flag, workervars, runhist,
                   queuevars, testvars>>

(***************************************************************************)
(* AudioSource under test  (src/src/player/audio.rs), sample by sample.   *)
(* The player specifications above pull the buffer a batch at a time; here *)
(* every call of next() is a step and the buffer holds single samples.     *)
(***************************************************************************)
\* The sample 0.0 returned as silence; no sample of Items equals it.
Silence == -1

\* Bound: batches of samples the source under test pops.
MaxBatches == 2

\* Bound: capacity of the buffer the source under test pulls from.
AudioTestCap == 1

\* AudioClock::advance_samples: the position after the call.
advance_samples(pos, is_paused, samples) ==
    IF ~is_paused THEN pos + delta_us(samples) ELSE pos

\* AudioSource::next: the buffer, the clear flag, the counter and the clock
\* position after the call, the sample returned, and, as history, the arm
\* taken and the samples handed to advance_samples.
AudioSource_next_advance_each(buf, flag, consumed, is_paused, pos) ==
    The({ IF c.ret
          THEN [buf |-> cb_clear(buf), flag |-> c.flag, consumed |-> 0, pos |-> pos,
                ret |-> Silence, arm |-> "clear", advance |-> 0]
          ELSE The({ IF r.val # None
                     THEN [buf |-> r.buf, flag |-> c.flag, consumed |-> consumed + 1,
                           pos |-> advance_samples(pos, is_paused, 1),
                           ret |-> r.val, arm |-> "pop", advance |-> 1]
                     ELSE [buf |-> r.buf, flag |-> c.flag, consumed |-> consumed,
                           pos |-> pos, ret |-> Silence, arm |-> "underrun", advance |-> 0]
                   : r \in {try_pop(buf)} })
        : c \in {should_clear_buffer(flag)} })

AudioSource_next_count_underrun(buf, flag, consumed, is_paused, pos) ==
    The({ IF c.ret
          THEN [buf |-> cb_clear(buf), flag |-> c.flag, consumed |-> 0, pos |-> pos,
                ret |-> Silence, arm |-> "clear", advance |-> 0]
          ELSE The({ The({ [buf |-> r.buf, flag |-> c.flag, consumed |-> consumed + 1,
                            pos |-> advance_samples(pos, is_paused, adv),
                            ret |-> IF r.val # None THEN r.val ELSE Silence,
                            arm |-> IF r.val # None THEN "pop" ELSE "underrun",
                            advance |-> adv]
                         : adv \in {IF (consumed + 1) % BatchSamples = 0
                                    THEN BatchSamples ELSE 0} })
                   : r \in {try_pop(buf)} })
        : c \in {should_clear_buffer(flag)} })

AudioSource_next(buf, flag, consumed, is_paused, pos) ==
    The({ IF c.ret
          THEN \* buffer.clear(); samples_consumed = 0; return Some(0.0)
               [buf |-> cb_clear(buf), flag |-> c.flag, consumed |-> 0, pos |-> pos,
                ret |-> Silence, arm |-> "clear", advance |-> 0]
          ELSE The({ IF r.val # None
                     THEN \* samples_consumed += 1; every 256th: advance_samples(256)
                          The({ [buf |-> r.buf, flag |-> c.flag, consumed |-> consumed + 1,
                                 pos |-> IF adv > 0 THEN advance_samples(pos, is_paused, adv)
                                                    ELSE pos,
                                 ret |-> r.val, arm |-> "pop", advance |-> adv]
                              : adv \in {IF (consumed + 1) % BatchSamples = 0
                                         THEN BatchSamples ELSE 0} })
                     ELSE \* Buffer underrun - return silence
                          [buf |-> r.buf, flag |-> c.flag, consumed |-> consumed,
                           pos |-> pos, ret |-> Silence, arm |-> "underrun", advance |-> 0]
                   : r \in {try_pop(buf)} })
        : c \in {should_clear_buffer(flag)} })

NoPull == [arm |-> "none", ret |-> Silence, advance |-> 0]

\* AudioSource::new
AudioSourceNew ==
    /\ samples_consumed = 0
    /\ as_last = NoPull

\* One call of next() by the audio device.
AudioSourceNext ==
    \E r \in {AudioSource_next(cb_buf, clear_buffer, samples_consumed, clock_paused,
                               position_us)} :
        /\ r.consumed <= MaxBatches * BatchSamples
        /\ cb_buf' = r.buf
        /\ clear_buffer' = r.flag
        /\ samples_consumed' = r.consumed
        /\ position_us' = r.pos
        /\ as_last' = [arm |-> r.arm, ret |-> r.ret, advance |-> r.advance]
        /\ UNCHANGED <<cb_cap, cb_last, clock_paused, clockhist, queuevars, queuehist,
                       facadevars, sharedvars, workervars, runhist>>

\* The worker pushes a sample (every sample has the value 1 here):
\* audio_buffer.push_slice(samples).
AudioSourcePush ==
    /\ cb_buf' = push_slice(cb_buf, cb_cap, <<1>>)
    /\ UNCHANGED <<cb_cap, cb_last, clockvars, clockhist, queuevars, queuehist, sysvars>>

(***************************************************************************)
(* VideoPlayer facade  (src/src/player/mod.rs)                             *)
(* fpc: "open" (the worker is spawned, open() has not sent Resume yet),    *)
(* "seek_send" (inside seek(), the queue is cleared, set_position and the  *)
(* Seek command are still to come), "ready" (between calls), "drop_send",  *)
(* "drop_join" (inside drop()), "dropped".                                 *)
(***************************************************************************)
\* Bound: play/pause/stop/seek calls made after open().
MaxOps == 2

\* Positions handed to seek(), in ticks; the last lies beyond the duration.
SeekPositions == {0, 26, 30}

\* position.as_secs_f64().clamp(0.0, self.duration)
clamp_none(x, lo, hi) == x

clamp(x, lo, hi) == IF x < lo THEN lo ELSE IF x > hi THEN hi ELSE x

\* The part of seek() up to frame_queue.clear().
SeekClear(pos) ==
    /\ seeking' = TRUE
    /\ seek_target' = clamp(pos, 0, Duration)
    /\ sink_playing' = FALSE
    /\ buffer' = queue_clear.buffer
    /\ current_frame' = queue_clear.current
    /\ video_chan' = queue_clear.chan
    /\ published' = NoFrame
    /\ seek_seq' = seek_seq + 1
    /\ fpc' = "seek_send"

\* open(): the state the constructor builds, the worker already spawned.
FacadeNew ==
    /\ state = "Stopped"
    /\ seeking = FALSE
    /\ seek_target = 0
    /\ sink_playing = FALSE
    /\ published = NoFrame
    /\ fpc = "open"
    /\ cmd_chan = <<>>
    /\ stop_flag = FALSE
    /\ audio_buffer = <<>>
    /\ seek_seq = 0
    /\ burst_lo = 0
    /\ AudioSourceNew
    /\ last_was_seek = FALSE
    /\ since_play = FALSE
    /\ eos_seen = FALSE

\* The end of open(): send(Resume), then seek(Duration::ZERO) up to the clear.
OpenResume ==
    /\ fpc = "open"
    /\ cmd_chan' = Append(cmd_chan, Cmd("Resume", 0, 0))
    /\ SeekClear(0)
    /\ burst_lo' = seek_seq + 1
    /\ last_was_seek' = FALSE
    /\ eos_seen' = FALSE
    /\ UNCHANGED <<state, ops_left, stop_flag, audio_buffer, workervars, w_epoch, since_play,
                   clockvars, testvars>>

\* play()
Play_no_resume ==
    /\ fpc = "ready"
    /\ ops_left > 0
    /\ state # "Playing"
    /\ state' = "Playing"
    /\ sink_playing' = TRUE
    /\ ops_left' = ops_left - 1
    /\ last_was_seek' = FALSE
    /\ since_play' = TRUE
    /\ eos_seen' = FALSE
    /\ UNCHANGED <<seeking, seek_target, published, fpc, sharedvars,
                   workervars, w_epoch, seek_seq, burst_lo, clockvars, queuevars, testvars>>

Play ==
    /\ fpc = "ready"
    /\ ops_left > 0
    /\ state # "Playing"
    /\ Len(cmd_chan) < CMD_CAPACITY
    /\ state' = "Playing"
    /\ sink_playing' = TRUE
    /\ cmd_chan' = Append(cmd_chan, Cmd("Resume", 0, 0))
    /\ ops_left' = ops_left - 1
    /\ last_was_seek' = FALSE
    /\ since_play' = TRUE
    /\ eos_seen' = FALSE
    /\ UNCHANGED <<seeking, seek_target, published, fpc, stop_flag, audio_buffer,
                   workervars, w_epoch, seek_seq, burst_lo, clockvars, queuevars, testvars>>

\* pause()
Pause ==
    /\ fpc = "ready"
    /\ ops_left > 0
    /\ state = "Playing"
    /\ Len(cmd_chan) < CMD_CAPACITY
    /\ state' = "Paused"
    /\ sink_playing' = FALSE
    /\ cmd_chan' = Append(cmd_chan, Cmd("Pause", 0, 0))
    /\ ops_left' = ops_left - 1
    /\ last_was_seek' = FALSE
    /\ since_play' = FALSE
    /\ eos_seen' = FALSE
    /\ UNCHANGED <<seeking, seek_target, published, fpc, stop_flag, audio_buffer,
                   workervars, w_epoch, seek_seq, burst_lo, clockvars, queuevars, testvars>>

\* stop(): state, sink.pause(), send(Pause), then seek(Duration::ZERO) up to the clear.
Stop ==
    /\ fpc = "ready"
    /\ ops_left > 0
    /\ Len(cmd_chan) < CMD_CAPACITY
    /\ state' = "Stopped"
    /\ cmd_chan' = Append(cmd_chan, Cmd("Pause", 0, 0))
    /\ SeekClear(0)
    /\ ops_left' = ops_left - 1
    /\ burst_lo' = seek_seq + 1
    /\ last_was_seek' = FALSE
    /\ since_play' = FALSE
    /\ eos_seen' = FALSE
    /\ UNCHANGED <<stop_flag, audio_buffer, workervars, w_epoch, clockvars, testvars>>

\* seek(position), up to frame_queue.clear().
Seek ==
    \E pos \in SeekPositions :
        /\ fpc = "ready"
        /\ ops_left > 0
        /\ SeekClear(pos)
        /\ ops_left' = ops_left - 1
        /\ burst_lo' = IF last_was_seek THEN burst_lo ELSE seek_seq + 1
        /\ last_was_seek' = TRUE
        /\ since_play' = FALSE
        /\ eos_seen' = FALSE
        /\ UNCHANGED <<state, sharedvars, workervars, w_epoch, clockvars, testvars>>

\* The rest of seek(): clock.set_position(position_secs), send(Seek(position_secs)).
SeekSend ==
    /\ fpc = "seek_send"
    /\ Len(cmd_chan) < CMD_CAPACITY
    /\ position_us' = seconds_to_us(seek_target)
    /\ clear_buffer' = TRUE
    /\ cmd_chan' = Append(cmd_chan, Cmd("Seek", seek_target, seek_seq))
    /\ fpc' = "ready"
    /\ UNCHANGED <<state, seeking, seek_target, sink_playing, published, ops_left, stop_flag,
                   audio_buffer, workervars, runhist, clock_paused, queuevars, testvars>>

\* update(), the seeking branch.
UpdateSeeking_no_resume ==
    /\ fpc = "ready"
    /\ seeking
    /\ \E r \in {get_first_frame_after_seek(buffer, current_frame, video_chan, seek_target)} :
           /\ buffer' = r.buffer
           /\ current_frame' = r.current
           /\ video_chan' = r.chan
           /\ IF r.ret # NoFrame
              THEN \* Frame arrived - seek complete
                   /\ published' = r.ret
                   /\ position_us' = seconds_to_us(r.ret.pts)
                   /\ clear_buffer' = TRUE
                   /\ seeking' = FALSE
                   /\ sink_playing' = sink_playing
              ELSE UNCHANGED <<published, position_us, clear_buffer, seeking, sink_playing>>
    /\ last_was_seek' = FALSE
    /\ eos_seen' = FALSE
    /\ UNCHANGED <<state, seek_target, fpc, ops_left, sharedvars, workervars, w_epoch,
                   seek_seq, burst_lo, since_play, clock_paused, testvars>>

UpdateSeeking ==
    /\ fpc = "ready"
    /\ seeking
    /\ \E r \in {get_first_frame_after_seek(buffer, current_frame, video_chan, seek_target)} :
           /\ buffer' = r.buffer
           /\ current_frame' = r.current
           /\ video_chan' = r.chan
           /\ IF r.ret # NoFrame
              THEN \* Frame arrived - seek complete
                   /\ published' = r.ret
                   /\ position_us' = seconds_to_us(r.ret.pts)
                   /\ clear_buffer' = TRUE
                   /\ seeking' = FALSE
                   /\ sink_playing' = IF state = "Playing" THEN TRUE ELSE sink_playing
              ELSE UNCHANGED <<published, position_us, clear_buffer, seeking, sink_playing>>
    /\ last_was_seek' = FALSE
    /\ eos_seen' = FALSE
    /\ UNCHANGED <<state, seek_target, fpc, ops_left, sharedvars, workervars, w_epoch,
                   seek_seq, burst_lo, since_play, clock_paused, testvars>>

\* The stream is at its end: the worker idles at end of file with nothing
\* left to send, no frame waits in the channel or in the buffer, and the
\* clock is within 0.1 s of the duration.
StreamAtEnd ==
    /\ at_eof
    /\ wpc \in {"top", "drain", "seek"}
    /\ pending_seek = NoSeek
    /\ cmd_chan = <<>>
    /\ dec = <<>>
    /\ held = NoFrame
    /\ buffer = <<>>
    /\ video_chan = <<>>
    /\ position(position_us) >= Duration - EOS_MARGIN

\* update(), not seeking and Playing: display selection and the end-of-stream check.
UpdatePlaying ==
    /\ fpc = "ready"
    /\ ~seeking
    /\ state = "Playing"
    /\ \E audio_time \in {position(position_us)} :
       \E r \in {get_display_frame(buffer, current_frame, video_chan, audio_time)} :
       \E eos \in {is_empty(r.buffer, r.current, r.chan) /\ audio_time >= Duration - EOS_MARGIN} :
           /\ buffer' = r.buffer
           /\ current_frame' = r.current
           /\ video_chan' = r.chan
           /\ published' = IF r.ret # NoFrame THEN r.ret ELSE published
           /\ state' = IF eos THEN "Stopped" ELSE state
           /\ sink_playing' = IF eos THEN FALSE ELSE sink_playing
    /\ last_was_seek' = FALSE
    /\ eos_seen' = StreamAtEnd
    /\ UNCHANGED <<seeking, seek_target, fpc, ops_left, sharedvars, workervars, w_epoch,
                   seek_seq, burst_lo, since_play, clockvars, testvars>>

\* drop(): stop_flag.store(true)
DropBegin ==
    /\ fpc = "ready"
    /\ stop_flag' = TRUE
    /\ fpc' = "drop_send"
    /\ UNCHANGED <<state, seeking, seek_target, sink_playing, published, ops_left, cmd_chan,
                   audio_buffer, workervars, runhist, clockvars, queuevars, testvars>>

\* drop(): let _ = command_sender.send(Stop): blocks while the channel is
\* full, fails at once when the worker is gone.
DropSend ==
    /\ fpc = "drop_send"
    /\ IF wpc = "exited"
       THEN UNCHANGED cmd_chan
       ELSE /\ Len(cmd_chan) < CMD_CAPACITY
            /\ cmd_chan' = Append(cmd_chan, Cmd("Stop", 0, 0))
    /\ fpc' = "drop_join"
    /\ UNCHANGED <<state, seeking, seek_target, sink_playing, published, ops_left, stop_flag,
                   audio_buffer, workervars, runhist, clockvars, queuevars, testvars>>

\* drop(): handle.join() returns once the worker thread has ended.
DropJoin ==
    /\ fpc = "drop_join"
    /\ wpc = "exited"
    /\ fpc' = "dropped"
    /\ UNCHANGED <<state, seeking, seek_target, sink_playing, published, ops_left,
                   sharedvars, workervars, runhist, clockvars, queuevars, testvars>>

FacadeNext ==
    \/ OpenResume
    \/ Play
    \/ Pause
    \/ Stop
    \/ Seek
    \/ SeekSend
    \/ UpdateSeeking
    \/ UpdatePlaying
    \/ DropBegin
    \/ DropSend
    \/ DropJoin

(***************************************************************************)
(* Specifications                                                          *)
(***************************************************************************)
\* The player when a component specification runs.
SysIdle ==
    /\ FacadeNew
    /\ WorkerNew
    /\ codec_delay = 0
    /\ audio_stream_index = 1
    /\ seekable = TRUE
    /\ fault = NoFault
    /\ error_chan = <<>>
    /\ ops_left = 0

InitBuf ==
    /\ cb_cap \in 0..MaxCap
    /\ cb_buf = <<>>
    /\ cb_last = NoOp
    /\ ClockNew
    /\ ClockHistIdle
    /\ QueueNew
    /\ QueueHistIdle
    /\ SysIdle

NextBuf == BufPush \/ BufPushSlice \/ BufTryPop \/ BufClear

SpecBuf == InitBuf /\ [][NextBuf]_vars

InitClock ==
    /\ ClockNew
    /\ ClockHistIdle
    /\ BufIdle
    /\ QueueNew
    /\ QueueHistIdle
    /\ SysIdle

NextClock ==
    \/ ClkSetPosition
    \/ ClkShouldClear
    \/ ClkAdvanceLoad
    \/ ClkAdvanceAdd
    \/ ClkPause
    \/ ClkResume

SpecClock == InitClock /\ [][NextClock]_vars

InitQueue ==
    /\ QueueNew
    /\ QueueHistIdle
    /\ BufIdle
    /\ ClockNew
    /\ ClockHistIdle
    /\ SysIdle

NextQueue == QDeliver \/ QGetDisplayFrame

SpecQueue == InitQueue /\ [][NextQueue]_vars

\* The audio source between a producer of samples, seeks and the worker's
\* pause and resume.
InitAudio ==
    /\ cb_cap = AudioTestCap
    /\ cb_buf = <<>>
    /\ cb_last = NoOp
    /\ ClockNew
    /\ ClockHistIdle
    /\ QueueNew
    /\ QueueHistIdle
    /\ SysIdle

NextAudio ==
    \/ AudioSourceNext
    \/ AudioSourcePush
    \/ ClkSetPosition
    \/ ClkPause
    \/ ClkResume

SpecAudio == InitAudio /\ [][NextAudio]_vars

\* The whole player: facade, worker and audio thread, from open().
Init ==
    /\ FacadeNew
    /\ WorkerNew
    /\ codec_delay \in 0..MaxCodecDelay
    /\ audio_stream_index = 1
    /\ seekable = TRUE
    /\ fault = NoFault
    /\ error_chan = <<>>
    /\ ops_left = MaxOps
    /\ ClockNew
    /\ QueueNew
    /\ BufIdle
    /\ ClockHistIdle
    /\ QueueHistIdle

Next == FacadeNext \/ WorkerNext \/ AudioNext

Spec == Init /\ [][Next]_vars

\* The player under a client that, after open(), only calls seek() and
\* update() and keeps the player alive: the sink never plays, so the audio
\* thread pulls nothing, and the worker never leaves its main loop.
MaxSeeks == 3

InitBurst ==
    /\ FacadeNew
    /\ WorkerNew
    /\ codec_delay \in 0..MaxCodecDelay
    /\ audio_stream_index = 1
    /\ seekable = TRUE
    /\ fault = NoFault
    /\ error_chan = <<>>
    /\ ops_left = MaxSeeks
    /\ ClockNew
    /\ QueueNew
    /\ BufIdle
    /\ ClockHistIdle
    /\ QueueHistIdle

NextBurst == OpenResume \/ Seek \/ SeekSend \/ UpdateSeeking \/ WorkerLoop

SpecBurst == InitBurst /\ [][NextBurst]_vars

(***************************************************************************)
(* C1: dropping the player (raise the stop flag, send Stop, join the       *)
(* worker) always terminates: from every reachable worker state the worker *)
(* thread eventually exits and join returns, while the facade consumes no  *)
(* more frames.                                                            *)
(* Stated on the states of the join: while the facade waits in join, the   *)
(* worker has ended or can still take a step.  A state that breaks it is a *)
(* worker blocked for good, since only the facade could unblock it.  The   *)
(* code reaches one: the stop flag makes the loop break into the flush,    *)
(* whose blocking send waits on a full video channel nobody reads.         *)
(***************************************************************************)
C1_JoinNeverBlocked ==
    fpc = "drop_join" => (wpc = "exited" \/ ENABLED WorkerNext)

(***************************************************************************)
(* C2: after seek(T), every frame update() publishes until the next seek   *)
(* has pts >= T - 0.5 s, both the frame that ends the seek and the frames  *)
(* get_display_frame selects afterwards.                                   *)
(* published is the frame last published since the latest seek().  The     *)
(* code breaks it: a frame of the previous epoch sent after the clear ends *)
(* the seek, update() sets the clock to its pts, and get_display_frame     *)
(* then selects frames of the new epoch that lie before T - 0.5 s.         *)
(***************************************************************************)
C2_PublishedNearTarget ==
    published # NoFrame => published.pts >= seek_target - SEEK_TOLERANCE

(***************************************************************************)
(* C3: after play() with only update() calls following, once the worker    *)
(* has reached end of file, every frame has been presented and the clock   *)
(* has reached duration - 0.1 s, update() moves the state to Stopped and   *)
(* pauses the sink.                                                        *)
(* eos_seen records that the facade's last call was an update() made in    *)
(* that situation; since_play that only update() calls followed play().    *)
(* The code breaks it: is_empty() also asks for current_frame to be None,  *)
(* and a frame is current whenever the player is not seeking.              *)
(***************************************************************************)
C3_EndOfStreamStops ==
    (since_play /\ eos_seen) => (state = "Stopped" /\ ~sink_playing)

(***************************************************************************)
(* C4: when seek(a), seek(b), seek(c) are issued back to back, no frame    *)
(* decoded for the a or b epoch is ever published by update().             *)
(* seek() calls are numbered; burst_lo is the number of the first call of  *)
(* the latest back-to-back run and seek_seq that of the last; a frame      *)
(* carries the number of the Seek command it was decoded under.  The code  *)
(* breaks it: the worker polls the command channel, the facade runs        *)
(* seek(b) and the clear of seek(c), and the worker's try_send then puts a *)
(* frame of epoch a into the emptied channel.                              *)
(***************************************************************************)
C4_NoFrameOfCoalescedSeeks ==
    (seek_seq - burst_lo >= 2 /\ published # NoFrame)
        => published.tag \notin burst_lo..(seek_seq - 1)

(***************************************************************************)
(* C7: for every capacity C and every sequence of push, push_slice,        *)
(* try_pop and clear, len() <= C in every reachable state.                 *)
(* The code breaks it for C = 0: push pops nothing and then appends.       *)
(***************************************************************************)
C7_LenWithinCapacity == len(cb_buf) <= cb_cap

\* What does hold: the bound is kept for every capacity of at least 1, and
\* by push_slice, try_pop and clear for capacity 0 as well.
LenWithinPositiveCapacity == cb_cap >= 1 => len(cb_buf) <= cb_cap

(***************************************************************************)
(* C8: push_slice(items) of N items on a buffer of capacity C holding len  *)
(* items leaves exactly the last min(len+N, C) items of the old contents   *)
(* followed by items (so for N >= C the last C new items, otherwise the    *)
(* max(0, len+N-C) oldest are evicted), and draining with try_pop then     *)
(* returns the retained items in push order and then None.                 *)
(***************************************************************************)
C8_PushSliceKeepsLast ==
    cb_last.op = "push_slice" =>
        LET old == cb_last.old
            items == cb_last.items
            N == Len(items)
            kept == LastN(old \o items, Min(Len(old) + N, cb_cap))
        IN  /\ cb_buf = kept
            /\ N >= cb_cap => cb_buf = LastN(items, cb_cap)
            /\ N < cb_cap =>
                  cb_buf = DropN(old, Max(0, Len(old) + N - cb_cap)) \o items
            /\ Drain(cb_buf) = kept \o <<None>>

\* A push_slice that had to evict part of the old contents (N < C).
C8_Witness ==
    /\ cb_last.op = "push_slice"
    /\ Len(cb_last.items) < cb_cap
    /\ Len(cb_last.items) >= 1
    /\ Len(cb_last.old) + Len(cb_last.items) > cb_cap
    /\ Len(cb_buf) = cb_cap

(***************************************************************************)
(* C5: between two set_position calls the clock position never decreases,  *)
(* and whenever the clock's paused flag is set the position does not       *)
(* change, under every interleaving of pause()/resume() on the worker      *)
(* thread with advance_samples on the audio thread.                        *)
(* advance_samples loads the flag and adds afterwards: a pause() between   *)
(* the two lets the position move while the flag is set.                   *)
(***************************************************************************)
C5_MonotoneAndStableWhilePaused ==
    [][ n_set' = n_set =>
            /\ position_us' >= position_us
            /\ (clock_paused /\ clock_paused') => position_us' = position_us ]_vars

\* The part that does hold: between set_position calls the position never
\* decreases, and an advance_samples call that reads the flag set adds nothing.
PositionMonotoneBetweenSets ==
    [][ n_set' = n_set => position_us' >= position_us ]_vars

(***************************************************************************)
(* C6 as stated: for every set_position call exactly one                   *)
(* should_clear_buffer call returns true, i.e. once the flag is down the   *)
(* calls that returned true are as many as the set_position calls.         *)
(***************************************************************************)
C6_ExactlyOnePerSetPosition == ~clear_buffer => n_true = n_set

(***************************************************************************)
(* C6 amended: a should_clear_buffer call returns true exactly when at     *)
(* least one set_position call was made since the previous                 *)
(* should_clear_buffer call (several such set_position calls are answered  *)
(* by that one true), so the calls returning true never outnumber the      *)
(* set_position calls, and the flag is up exactly while a set_position     *)
(* call is still unanswered.                                               *)
(***************************************************************************)
C6_OneShotPerCheck ==
    /\ ck_last.called => (ck_last.ret <=> ck_last.since >= 1)
    /\ n_true <= n_set
    /\ clear_buffer <=> ck_since >= 1

\* Two set_position calls answered by a single true.
C6_Witness ==
    /\ ck_last.called
    /\ ck_last.ret
    /\ ck_last.since = 2
    /\ n_set = 2
    /\ n_true = 1

(***************************************************************************)
(* C9: get_display_frame(T) never makes current a frame with               *)
(* pts < T - 20 ms (such frames at the front are discarded) and never one  *)
(* with pts > T + 20 ms (it stays at the front of the buffer and           *)
(* current_frame is unchanged).                                            *)
(* q_last holds the last call: all is the buffer followed by the channel   *)
(* before it, cur the current frame before it; buffer, chan and current    *)
(* are the queue it left.  The call took the first k frames of all out.    *)
(***************************************************************************)
C9_DisplayWindow ==
    q_last.called =>
        LET T == q_last.T
            all == q_last.all
            rest == q_last.buffer \o q_last.chan
            k == Len(all) - Len(rest)
        IN  /\ k >= 0
            /\ rest = DropN(all, k)
            /\ \A i \in 1..k : all[i].pts <= T + HOLD_THRESHOLD
            /\ IF q_last.current # q_last.cur
               THEN /\ k >= 1
                    /\ q_last.current = all[k]
                    /\ q_last.current.pts >= T - DROP_THRESHOLD
                    /\ q_last.current.pts <= T + HOLD_THRESHOLD
                    /\ \A i \in 1..(k - 1) : all[i].pts < T - DROP_THRESHOLD
               ELSE /\ \A i \in 1..k : all[i].pts < T - DROP_THRESHOLD
                    /\ q_last.buffer # <<>> =>
                          Head(q_last.buffer).pts > T + HOLD_THRESHOLD

\* After an earlier call made a frame current, a call that discarded a late
\* frame and left a frame that is too early at the front of the buffer,
\* with current_frame unchanged.
C9_Witness ==
    /\ q_last.called
    /\ q_last.cur # NoFrame
    /\ Len(q_last.all) - Len(q_last.buffer \o q_last.chan) = 1
    /\ q_last.current = q_last.cur
    /\ q_last.buffer # <<>>
    /\ Head(q_last.buffer).pts > q_last.T + HOLD_THRESHOLD

(***************************************************************************)
(* C10: with frames delivered in non-decreasing PTS order and a            *)
(* non-decreasing sequence of clock values, successive get_display_frame   *)
(* calls advance current_frame by at most one frame per call, never select *)
(* the same frame twice, and select frames in PTS order.                   *)
(***************************************************************************)
C10_OncePerFrameInOrder ==
    /\ q_last.called => Len(q_last.selected) <= 1
    /\ \A i, j \in 1..Len(shown) :
          i < j => /\ shown[i].tag < shown[j].tag
                   /\ shown[i].pts <= shown[j].pts
    /\ current_frame = IF shown = <<>> THEN NoFrame ELSE shown[Len(shown)]

\* Two frames qualified in one call and only the first was made current;
\* three frames have been shown so far.
C10_Witness ==
    /\ Len(shown) = 3
    /\ q_last.called
    /\ q_last.selected # <<>>
    /\ q_last.buffer # <<>>
    /\ Head(q_last.buffer).pts <= q_last.T + HOLD_THRESHOLD
    /\ Head(q_last.buffer).pts >= q_last.T - DROP_THRESHOLD

(***************************************************************************)
(* Scenarios: the player under a client that makes a fixed sequence of     *)
(* calls after open() and calls update() at any time in between and ever   *)
(* after.  ops_left counts the calls still to come.  The worker thread     *)
(* keeps running, the facade's calls return, update() is called again and  *)
(* again (once per UI frame) and the sink keeps pulling while it plays.    *)
(***************************************************************************)
\* VideoPlayer::position
player_position == IF seeking THEN seek_target ELSE position(position_us)

\* Bound: the frames the video decoder may hold back in the scenarios.
MaxHeldBack == 2

\* The video frames the worker can send after a seek to target: those of
\* the packets from the key frame on, less the last codec_delay of them,
\* which stay in the decoder when the packets run out.
ReleasedAfterSeek(target) ==
    LET idx == {i \in demux_seek(target)..Len(Packets) : Packets[i].kind = "video"}
    IN  {i \in idx : Cardinality({j \in idx : j > i}) >= codec_delay}

\* Some frame the worker can send after a seek to target ends that seek.
FrameReleased(target) ==
    \E i \in ReleasedAfterSeek(target) : Packets[i].pts >= target - SEEK_TOLERANCE

InitScenario ==
    /\ FacadeNew
    /\ WorkerNew
    /\ codec_delay \in {0, MaxHeldBack}
    /\ audio_stream_index = 1
    /\ seekable = TRUE
    /\ fault = NoFault
    /\ error_chan = <<>>
    /\ ClockNew
    /\ QueueNew
    /\ BufIdle
    /\ ClockHistIdle
    /\ QueueHistIdle

\* What runs between the client's calls: the rest of a facade call in
\* progress and the update() the GUI makes every frame.
FacadeBackground ==
    \/ OpenResume
    \/ SeekSend
    \/ UpdateSeeking
    \/ UpdatePlaying

Background ==
    \/ FacadeBackground
    \/ WorkerLoop
    \/ AudioNext

\* The GUI thread keeps calling update() and the worker thread keeps
\* running its loop.
Fairness ==
    /\ WF_vars(FacadeBackground)
    /\ WF_vars(WorkerLoop)

\* open(); play(); seek(T).
InitPlaySeek == InitScenario /\ ops_left = 2

CallsPlaySeek ==
    \/ ops_left = 2 /\ Play
    \/ ops_left = 1 /\ Seek

NextPlaySeek == CallsPlaySeek \/ Background

SpecPlaySeek == InitPlaySeek /\ [][NextPlaySeek]_vars /\ Fairness

\* The seek of the scenario is done: a frame is published, position()
\* reports the clock, the state is Playing and the sink plays.
SeekDonePlaying ==
    /\ ~seeking
    /\ published # NoFrame
    /\ published.pts >= seek_target - SEEK_TOLERANCE
    /\ player_position = position(position_us)
    /\ state = "Playing"
    /\ sink_playing

(***************************************************************************)
(* C11 as stated: if seek(T) is called while Playing and only update()     *)
(* calls follow, the seek eventually completes: a frame is published,      *)
(* seeking becomes false, position() reports the clock instead of the      *)
(* target, the state is still Playing and the sink is playing again.       *)
(* It fails when every frame at or after T - 0.5 s is among those the      *)
(* decoder holds back at end of file: the worker sends none of them.       *)
(***************************************************************************)
C11_SeekWhilePlayingCompletes ==
    (ops_left = 0 /\ seeking) ~> SeekDonePlaying

(***************************************************************************)
(* C11 where it does hold: if seek(T) is called while Playing, only update *)
(* calls follow, and the worker can send a frame with pts >= T - 0.5 s     *)
(* (one the decoder does not hold back at end of file), the seek           *)
(* eventually completes: a frame with pts >= T - 0.5 s is published,       *)
(* seeking becomes false, position() reports the clock, the state is       *)
(* still Playing and the sink is playing again.                            *)
(***************************************************************************)
C11_SeekWhilePlayingCompletesIfReleased ==
    (ops_left = 0 /\ seeking /\ FrameReleased(seek_target)) ~> SeekDonePlaying

\* A seek to 520 ms during playback ended by a frame decoded after it.
C11_Witness ==
    /\ ops_left = 0
    /\ seek_target = 26
    /\ SeekDonePlaying
    /\ published.tag = seek_seq
    /\ w_epoch = seek_seq


\* open(); play(); seek(T); pause() with no update() between the last
\* two, on a file whose decoder holds back no frame.
InitSeekPause == InitScenario /\ codec_delay = 0 /\ ops_left = 3

CallsSeekPause ==
    \/ ops_left = 3 /\ Play
    \/ ops_left = 2 /\ Seek
    \/ ops_left = 1 /\ last_was_seek /\ Pause

NextSeekPause == CallsSeekPause \/ Background

SpecSeekPause == InitSeekPause /\ [][NextSeekPause]_vars /\ Fairness

\* The seek is done and the player is paused.
SeekDonePaused ==
    /\ ~seeking
    /\ published # NoFrame
    /\ published.pts >= seek_target - SEEK_TOLERANCE
    /\ state = "Paused"
    /\ ~sink_playing

(***************************************************************************)
(* C12: if seek(T) is called while Playing and pause() immediately after,  *)
(* then with only update() calls following the seek still completes (a     *)
(* frame at about T is published and seeking becomes false) and the state  *)
(* is then Paused with the sink paused.                                    *)
(* It fails when the worker receives Pause before it has sent a frame that *)
(* ends the seek: paused, it seeks but reads no packet.                    *)
(***************************************************************************)
C12_PauseDuringSeekCompletes ==
    (ops_left = 0 /\ seeking /\ state = "Paused") ~> SeekDonePaused


\* open(); play(); then pause(); seek(T) or stop(), on a file whose
\* decoder holds back no frame.
InitIdleSeek == InitScenario /\ codec_delay = 0 /\ ops_left = 3

CallsIdleSeek ==
    \/ ops_left = 3 /\ Play
    \/ ops_left = 2 /\ Pause
    \/ ops_left = 2 /\ Stop
    \/ ops_left = 1 /\ state = "Paused" /\ Seek

NextIdleSeek == CallsIdleSeek \/ Background

SpecIdleSeek == InitIdleSeek /\ [][NextIdleSeek]_vars /\ Fairness

\* The client of SpecIdleSeek has made its last call.
IdleSeekCalled == ops_left = 0 \/ (ops_left = 1 /\ state = "Stopped")

(***************************************************************************)
(* C13: a seek issued while the player is Paused or Stopped, the seek to 0 *)
(* inside stop() included, eventually completes when only update() calls   *)
(* follow: a frame with pts >= target - 0.5 s is published and seeking     *)
(* becomes false, the player state unchanged.                              *)
(* It fails once the worker has received Pause: it performs the seek but   *)
(* reads no packet while paused, so no frame follows the seek.             *)
(***************************************************************************)
C13_IdleSeekCompletes ==
    (IdleSeekCalled /\ seeking /\ state \in {"Paused", "Stopped"})
        ~> (/\ ~seeking
            /\ published # NoFrame
            /\ published.pts >= seek_target - SEEK_TOLERANCE
            /\ state \in {"Paused", "Stopped"})


\* open() and then only update(): the state stays Stopped, so update()
\* runs its seeking branch or nothing, and the sink, never started, pulls
\* no sample.
InitPoster == InitScenario /\ ops_left = 0

NextPoster == OpenResume \/ SeekSend \/ UpdateSeeking \/ WorkerLoop

SpecPoster == InitPoster /\ [][NextPoster]_vars /\ Fairness

\* The poster frame is on screen.
PosterShown ==
    /\ ~seeking
    /\ published # NoFrame
    /\ published.pts >= 0 - SEEK_TOLERANCE

\* The clock holds a position set by a seek or taken from the published frame.
ClockNotAdvanced ==
    \/ position_us = seconds_to_us(seek_target)
    \/ published # NoFrame /\ position_us = seconds_to_us(published.pts)

InitNoAudio ==
    /\ FacadeNew
    /\ WorkerNew
    /\ codec_delay = 0
    /\ audio_stream_index = None
    /\ seekable = TRUE
    /\ fault = NoFault
    /\ error_chan = <<>>
    /\ ops_left = 1
    /\ ClockNew
    /\ QueueNew
    /\ BufIdle
    /\ ClockHistIdle
    /\ QueueHistIdle

CallsNoAudio == ops_left = 1 /\ Play

NextNoAudio == CallsNoAudio \/ Background

\* The audio device keeps pulling samples while the sink plays.
FairnessAudio == Fairness /\ WF_vars(AudioNext)

SpecNoAudio == InitNoAudio /\ [][NextNoAudio]_vars /\ FairnessAudio

(***************************************************************************)
(* C15: on a file without an audio stream, during Playing the clock still  *)
(* advances and update() keeps presenting successive video frames: once    *)
(* play() has been called the clock eventually leaves 0 and a frame later  *)
(* than the first 20 ms of the file is eventually presented.               *)
(* It fails because only a popped sample advances the clock: with no       *)
(* sample ever pushed the clock stays at 0 and update() holds every frame  *)
(* later than 20 ms back.                                                  *)
(***************************************************************************)
C15_AudiolessFilePlays ==
    (ops_left = 0 /\ state = "Playing")
        ~> (/\ position_us > 0
            /\ published # NoFrame
            /\ published.pts > HOLD_THRESHOLD)


\* open(); play(); pause(); play().
InitPauseResume == InitScenario /\ ops_left = 3

CallsPauseResume ==
    \/ ops_left = 3 /\ Play
    \/ ops_left = 2 /\ Pause
    \/ ops_left = 1 /\ Play

NextPauseResume == CallsPauseResume \/ Background

SpecPauseResume == InitPauseResume /\ [][NextPauseResume]_vars

\* The audio thread pops a batch of samples: the step of AudioSource::next
\* that neither clears the buffer nor underruns.
AudioPops ==
    /\ sink_playing
    /\ ~clear_buffer
    /\ audio_buffer # <<>>
    /\ audio_buffer' = try_pop(audio_buffer).buf
    /\ UNCHANGED workervars

(***************************************************************************)
(* C16: from Playing, pause() followed by play() returns the player to     *)
(* Playing with the sink playing, and once the worker has processed the    *)
(* Pause and the Resume (the command channel is empty) its paused flag and *)
(* the clock's paused flag are clear, so that every batch of samples the   *)
(* audio thread pops from then on advances the position by its length.     *)
(***************************************************************************)
C16_PauseThenPlayResumes ==
    /\ [](ops_left = 0 => (state = "Playing" /\ sink_playing))
    /\ []((ops_left = 0 /\ cmd_chan = <<>>) => (~paused /\ ~clock_paused))
    /\ [][(ops_left = 0 /\ cmd_chan = <<>> /\ AudioPops)
              => position_us' = position_us + delta_us(BatchSamples)]_vars

\* After play(); pause(); play() the worker has taken every command, the
\* clock runs and the audio thread has just advanced it past a point it
\* was set to.
C16_Witness ==
    /\ ops_left = 0
    /\ cmd_chan = <<>>
    /\ state = "Playing"
    /\ sink_playing
    /\ ~seeking
    /\ ~clock_paused
    /\ audio_buffer # <<>>
    /\ position_us > seconds_to_us(published.pts)


\* The worker is idle at the end of the file with nothing left to send and
\* no command waiting, and no seek is in progress: no frame decoded so far
\* can arrive after a later call.
Quiescent ==
    /\ ~seeking
    /\ fpc = "ready"
    /\ cmd_chan = <<>>
    /\ pending_seek = NoSeek
    /\ at_eof
    /\ dec = <<>>
    /\ held = NoFrame
    /\ wpc \in {"top", "drain", "seek"}

\* The frame that ends a seek to target when the worker decodes from the
\* key frame and the queue holds nothing older: the first frame from the
\* key frame on with pts >= target - 0.5 s.
FirstFrameAfterSeek(target) ==
    LET idx == {i \in demux_seek(target)..Len(Packets) :
                    /\ Packets[i].kind = "video"
                    /\ Packets[i].pts >= target - SEEK_TOLERANCE}
    IN  Packets[CHOOSE i \in idx : \A j \in idx : i <= j].pts

\* open(), update() until the worker is idle at the end of the file, then
\* seek(t) and, with no update() between, seek(t) again.
InitSeekTwice == InitScenario /\ codec_delay = 0 /\ ops_left = 2

CallsSeekTwice ==
    \/ ops_left = 2 /\ Quiescent /\ Seek
    \/ ops_left = 1 /\ last_was_seek /\ Seek /\ seek_target' = seek_target

NextSeekTwice == CallsSeekTwice \/ OpenResume \/ SeekSend \/ UpdateSeeking \/ WorkerLoop

SpecSeekTwice == InitSeekTwice /\ [][NextSeekTwice]_vars

\* A single seek(t) from the quiescent player ends with the first frame
\* from the key frame on with pts >= t - 0.5 s, and the clock adopts its pts.
SingleSeekOutcome ==
    (ops_left = 1 /\ ~seeking)
        => (/\ published.pts = FirstFrameAfterSeek(seek_target)
            /\ position_us = seconds_to_us(published.pts))

\* The facade state at the return of seek() depends on t alone: seeking,
\* the clamped target, an empty buffer and no current frame, the clock at
\* the target with its clear flag raised, the sink paused.
SeekFacadeState ==
    [][(fpc = "seek_send" /\ fpc' = "ready")
          => (/\ seeking'
              /\ seek_target' = seek_target
              /\ buffer' = <<>>
              /\ current_frame' = NoFrame
              /\ position_us' = seconds_to_us(seek_target)
              /\ clear_buffer'
              /\ ~sink_playing')]_vars

(***************************************************************************)
(* C17: seek(t); seek(t) is equivalent to seek(t): the frame that ends the *)
(* seek and the clock position adopted from it are those of a single       *)
(* seek(t) (SingleSeekOutcome), whether the worker coalesces the two Seek  *)
(* commands or handles them one after the other.  (The facade state right *)
(* after the call is the same: SeekFacadeState.)                           *)
(* It fails when the worker handles the first Seek before the second       *)
(* seek() empties the queue: a frame it decoded for the first Seek can     *)
(* reach the emptied queue and end the second seek.                        *)
(***************************************************************************)
C17_SeekTwiceAsOnce ==
    (ops_left = 0 /\ ~seeking)
        => (/\ published.pts = FirstFrameAfterSeek(seek_target)
            /\ position_us = seconds_to_us(published.pts))


\* open() and two seek() calls to any of the positions, at any time, with
\* update() and the worker running.
InitSeeks == InitScenario /\ ops_left = 2

SpecSeeks == InitSeeks /\ [][NextBurst]_vars

\* The positions carried by the Seek commands the facade has sent and the
\* worker has not yet acted on.
SeekValues ==
    {cmd_chan[i].t : i \in {j \in DOMAIN cmd_chan : cmd_chan[j].op = "Seek"}}
        \cup (IF pending_seek # NoSeek THEN {pending_seek.t} ELSE {})

(***************************************************************************)
(* C18: seek(position) clamps to [0, duration]: after any sequence of      *)
(* seeks, seek_target and the value carried by every emitted Seek command  *)
(* lie in [0, duration], and the clock position set from them does too.    *)
(***************************************************************************)
C18_SeekClamped ==
    /\ seek_target \in 0..Duration
    /\ SeekValues \subseteq 0..Duration
    /\ (seeking /\ fpc = "ready") => position(position_us) \in 0..Duration

\* Seeks to 0 (that of open() among them) and then a seek beyond the
\* duration were accepted: the last is in progress, its target and its
\* Seek command at the duration, which is none of the positions asked for.
C18_Witness ==
    /\ ops_left = 0
    /\ seeking
    /\ seek_target = Duration
    /\ w_epoch = seek_seq - 1
    /\ \E i \in DOMAIN cmd_chan :
          cmd_chan[i] = Cmd("Seek", Duration, seek_seq)
    /\ \A pos \in SeekPositions : pos # Duration


\* The call of next() in this step reaches try_pop and finds the buffer empty.
Underrun == ~clear_buffer /\ cb_buf = <<>>

\* The call of next() in this step pops a sample.
Popped == ~clear_buffer /\ cb_buf # <<>>

(***************************************************************************)
(* C19: AudioSource is an infinite, non-failing stream: a pull is always   *)
(* possible and returns a sample (a sample of the buffer or 0.0, never     *)
(* None); a pull that finds the buffer empty returns 0.0 and changes       *)
(* neither the clock position nor the consumed-sample counter.             *)
(***************************************************************************)
C19_InfiniteNonFailing ==
    /\ [](samples_consumed < MaxBatches * BatchSamples => ENABLED AudioSourceNext)
    /\ [][AudioSourceNext =>
            /\ as_last'.ret \in Items \cup {Silence}
            /\ as_last'.ret # None
            /\ Underrun => /\ as_last'.ret = Silence
                           /\ position_us' = position_us
                           /\ samples_consumed' = samples_consumed]_vars

\* An underrun after samples were consumed and the clock had advanced: the
\* pull returned 0.0 with the buffer empty, the counter and the clock where
\* the last pop left them.
C19_Witness ==
    /\ as_last = [arm |-> "underrun", ret |-> Silence, advance |-> 0]
    /\ cb_buf = <<>>
    /\ samples_consumed = BatchSamples + 1
    /\ position_us = delta_us(BatchSamples)

(***************************************************************************)
(* C20: AudioSource advances the clock by exactly 256 samples on every     *)
(* 256th successful pop since its counter was last reset (it calls         *)
(* advance_samples(256), which adds the 256 samples to the position unless *)
(* the clock is paused) and at no other time; a pull that observes the     *)
(* clear flag empties the buffer, resets the counter to 0, pops nothing    *)
(* and returns one 0.0.                                                    *)
(***************************************************************************)
C20_AdvanceEvery256thPop ==
    [][AudioSourceNext =>
        /\ (Popped /\ (samples_consumed + 1) % BatchSamples = 0)
              => /\ as_last'.advance = BatchSamples
                 /\ position_us' = advance_samples(position_us, clock_paused, BatchSamples)
                 /\ ~clock_paused => position_us' = position_us + delta_us(BatchSamples)
        /\ ~(Popped /\ (samples_consumed + 1) % BatchSamples = 0)
              => /\ as_last'.advance = 0
                 /\ position_us' = position_us
        /\ Popped => /\ samples_consumed' = samples_consumed + 1
                     /\ as_last'.ret = Head(cb_buf)
        /\ clear_buffer => /\ cb_buf' = <<>>
                           /\ samples_consumed' = 0
                           /\ as_last'.ret = Silence
                           /\ as_last'.arm = "clear"
                           /\ ~clear_buffer']_vars

\* The second advance: the 512th pop since the counter was last reset has
\* just moved the running clock to the length of two batches.
C20_Witness ==
    /\ as_last.arm = "pop"
    /\ as_last.advance = BatchSamples
    /\ samples_consumed = 2 * BatchSamples
    /\ ~clock_paused
    /\ n_set = 0
    /\ position_us = 2 * delta_us(BatchSamples)

\* A pull that observed the clear flag with samples waiting and a counter
\* above 0 left the buffer empty and the counter at 0.
C20_WitnessClear ==
    /\ as_last = [arm |-> "clear", ret |-> Silence, advance |-> 0]
    /\ samples_consumed = 0
    /\ cb_buf = <<>>
    /\ ~clear_buffer
    /\ n_set > 0

(***************************************************************************)
(* C21: the send-retry loop of the worker.                                 *)
(***************************************************************************)
\* open(); play(); seek(T); pause() as above, the client free to drop the
\* player between any two calls and after the last.
NextSendLoop == NextSeekPause \/ DropBegin \/ DropSend \/ DropJoin

SpecSendLoop == InitSeekPause /\ [][NextSendLoop]_vars

\* C21: while the worker holds a decoded frame in its send loop, a step
\* either leaves it in the loop with the same frame, or puts the frame
\* into a channel that had room, or takes a Seek command (pending_seek
\* recorded, frame abandoned, back to the top of the main loop), or takes
\* a Stop command (the thread ends).  A send attempt is always preceded by
\* one poll of the command channel, an attempt on a full channel is
\* followed by the next poll with the frame kept, and a Pause or Resume
\* taken by the poll sets the two paused flags and goes on to the attempt.
C21_SendRetryKeepsFrame ==
    /\ [][(held # NoFrame /\ wpc \in {"poll", "send"})
            => \/ held' = held /\ wpc' \in {"poll", "send"}
               \/ /\ wpc = "send"
                  /\ Len(video_chan) < ChanCap
                  /\ video_chan' = Append(video_chan, held)
                  /\ held' = NoFrame
                  /\ wpc' = "top"
               \/ /\ wpc = "poll"
                  /\ cmd_chan # <<>>
                  /\ Head(cmd_chan).op = "Seek"
                  /\ pending_seek' = [t |-> Head(cmd_chan).t, seq |-> Head(cmd_chan).seq]
                  /\ held' = NoFrame
                  /\ wpc' = "top"
               \/ /\ wpc = "poll"
                  /\ cmd_chan # <<>>
                  /\ Head(cmd_chan).op = "Stop"
                  /\ wpc' = "exited"]_vars
    /\ [][(wpc' = "send" /\ wpc # "send") => wpc = "poll"]_vars
    /\ [][(wpc = "send" /\ wpc' # "send" /\ Len(video_chan) >= ChanCap)
            => (wpc' = "poll" /\ held' = held /\ video_chan' = video_chan)]_vars
    /\ [][(wpc = "poll" /\ wpc' # "poll" /\ cmd_chan # <<>>
           /\ Head(cmd_chan).op \in {"Pause", "Resume"})
            => /\ wpc' = "send"
               /\ held' = held
               /\ paused' = (Head(cmd_chan).op = "Pause")
               /\ clock_paused' = paused'
               /\ pending_seek' = pending_seek
               /\ cmd_chan' = Tail(cmd_chan)]_vars
    /\ [](wpc \in {"poll", "send"} => held # NoFrame)

\* The worker took a Pause in its send loop and now attempts to send the
\* frame it kept into a full channel.
C21_Witness ==
    /\ wpc = "send"
    /\ paused
    /\ held # NoFrame
    /\ Len(video_chan) = ChanCap

(***************************************************************************)
(* C22: the worker while its paused flag is set.                           *)
(***************************************************************************)
\* The worker puts the frame it holds into the video channel.
WorkerSendsFrame ==
    /\ wpc = "send"
    /\ held # NoFrame
    /\ held' = NoFrame
    /\ video_chan' = Append(video_chan, held)

\* The worker reads a packet or reaches the end of the file.
WorkerReads == wpc = "read" /\ wpc' # "read"

\* C22, as stated: while the worker's paused flag is set, no step of it
\* reads a packet, sends a video frame or pushes audio samples.
C22_PausedWorkerOnlyDrains ==
    [][paused => /\ ~WorkerReads
                 /\ ~WorkerSendsFrame
                 /\ Len(audio_buffer') <= Len(audio_buffer)]_vars

\* C22, amended: while the paused flag is set the worker reads no packet,
\* pushes no audio samples and never enters the send loop; outside the
\* send loop it only cycles through the stop check, the command drain and
\* the pending-seek step.  A Pause taken inside the send loop does not end
\* that loop: the frame held there is still sent.
C22_PausedWorkerReadsNothing ==
    /\ [](paused => wpc # "read")
    /\ [][paused => /\ ~WorkerReads
                    /\ Len(audio_buffer') <= Len(audio_buffer)
                    /\ (wpc' \in {"poll", "send"} => wpc \in {"poll", "send"})
                    /\ (wpc \in {"top", "drain", "seek", "exited"} /\ paused'
                          => wpc' \in {"top", "drain", "seek", "exited", "flush"})
                    /\ (wpc \in {"top", "drain", "seek"} => video_chan' = video_chan
                          \/ Len(video_chan') < Len(video_chan))]_vars

\* pause() was called, the worker took the Pause in its send loop and is
\* about to send the frame it holds into a channel that has room.
C22_Witness ==
    /\ state = "Paused"
    /\ paused
    /\ wpc = "send"
    /\ held # NoFrame
    /\ Len(video_chan) < ChanCap

(***************************************************************************)
(* C23: what the worker's pending-seek step leaves behind.                 *)
(***************************************************************************)
\* open(), then one seek(t) at any moment, on a file whose demuxer may
\* refuse to seek.
InitSeekFails ==
    /\ FacadeNew
    /\ WorkerNew
    /\ codec_delay = 0
    /\ audio_stream_index = 1
    /\ seekable \in BOOLEAN
    /\ fault = NoFault
    /\ error_chan = <<>>
    /\ ops_left = 1
    /\ ClockNew
    /\ QueueNew
    /\ BufIdle
    /\ ClockHistIdle
    /\ QueueHistIdle

SpecSeekFails == InitSeekFails /\ [][NextBurst]_vars

\* The worker's step at decoder.rs:219-236 with a seek pending.
HandlesPendingSeek == wpc = "seek" /\ wpc' # "seek" /\ pending_seek # NoSeek

\* C23: every step in which the worker handles a pending seek to t leaves
\* the clock position at t, the clear flag raised, at_eof false and
\* pending_seek empty, and unless the worker is paused its next step is
\* the packet read.
C23_SeekResetsWorker ==
    [][HandlesPendingSeek
         => /\ position_us' = seconds_to_us(pending_seek.t)
            /\ clear_buffer'
            /\ ~at_eof'
            /\ pending_seek' = NoSeek
            /\ (~paused => wpc' = "read")]_vars

\* On a file whose demuxer seeks, the same statement.
C23_SeekResetsWorkerIfSeekable ==
    [][(HandlesPendingSeek /\ seekable)
         => /\ position_us' = seconds_to_us(pending_seek.t)
            /\ clear_buffer'
            /\ ~at_eof'
            /\ pending_seek' = NoSeek
            /\ (~paused => wpc' = "read")]_vars

\* The worker has dropped a seek at the end of the file: the facade waits
\* for a frame while the worker idles with nothing to read and no command.
C23_Stuck ==
    /\ seeking
    /\ fpc = "ready"
    /\ at_eof
    /\ pending_seek = NoSeek
    /\ cmd_chan = <<>>
    /\ video_chan = <<>>
    /\ buffer = <<>>
    /\ held = NoFrame
    /\ ops_left = 0

(***************************************************************************)
(* C24: runtime decode failures.                                           *)
(***************************************************************************)
\* The faults of the file under play: none, the audio packet 2 failing in
\* the audio decoder or in the resampler, the video packet 3 failing in
\* the video decoder or in the scaler.
Faults ==
    { NoFault,
      [pkt |-> 2, stage |-> "send_packet"],
      [pkt |-> 2, stage |-> "resampler"],
      [pkt |-> 3, stage |-> "send_packet"],
      [pkt |-> 3, stage |-> "scaler"] }

\* open(); play() on a file with one fault.
InitFaults ==
    /\ FacadeNew
    /\ WorkerNew
    /\ codec_delay = 0
    /\ audio_stream_index = 1
    /\ seekable = TRUE
    /\ fault \in Faults
    /\ error_chan = <<>>
    /\ ops_left = 1
    /\ ClockNew
    /\ QueueNew
    /\ BufIdle
    /\ ClockHistIdle
    /\ QueueHistIdle

SpecFaults == InitFaults /\ [][NextNoAudio]_vars

\* C24: whatever packet fails to decode and at whatever stage, the worker
\* thread keeps running and the error channel stays empty.
C24_DecodeFailureOnlyDrops == wpc # "exited" /\ error_chan = <<>>

\* A failure of the resampler is the one case that only drops the batch:
\* the worker keeps running, reports nothing, and reads the packets after
\* the failed one.
C24_ResamplerFailureOnlyDrops ==
    /\ [](fault.stage \in {"none", "resampler"} => wpc # "exited" /\ error_chan = <<>>)
    /\ [][(fault.stage = "resampler" /\ wpc = "read" /\ rd = fault.pkt /\ wpc' # "read")
            => (audio_buffer' = audio_buffer /\ wpc' = "top" /\ rd' = rd + 1)]_vars

\* The worker thread has ended on a failed packet and its error waits on
\* the error channel, while the player is Playing.
C24_WorkerDead ==
    /\ wpc = "exited"
    /\ error_chan # <<>>
    /\ state = "Playing"
    /\ ~stop_flag

(***************************************************************************)
(* C25: the clock after update() has completed a seek.  Under SpecSeeks    *)
(* the sink never plays, so no audio sample is consumed, and every seek()  *)
(* sets seeking again.                                                     *)
(***************************************************************************)
\* C25: while no seek is in progress and no sample has been consumed, the
\* clock stands at the PTS of the frame that update() published when it
\* completed the last seek.
C25_ClockKeepsPublishedPts ==
    (~seeking /\ published # NoFrame) => position_us = seconds_to_us(published.pts)

\* update() completed the seek with a frame, and afterwards the worker
\* handled that seek's own command and moved the clock to the target.
C25_ClockMovedByWorker ==
    /\ ~seeking
    /\ published # NoFrame
    /\ w_epoch = seek_seq
    /\ position_us = seconds_to_us(seek_target)
    /\ position_us # seconds_to_us(published.pts)

(***************************************************************************)
(* C26: the sink and the clock while a seek is in progress.                *)
(***************************************************************************)
\* C26: while seeking is true the sink is paused, and no batch of samples
\* popped by the audio thread moves the clock position.
C26_SinkPausedWhileSeeking ==
    /\ [](seeking => ~sink_playing)
    /\ [][(seeking /\ AudioPops) => position_us' = position_us]_vars

\* play() was called while open()'s seek was still in progress, and the
\* audio thread has since popped samples and advanced the clock past the
\* seek target.
C26_ClockAdvancedWhileSeeking ==
    /\ seeking
    /\ sink_playing
    /\ state = "Playing"
    /\ fpc = "ready"
    /\ position_us > seconds_to_us(seek_target)

C28_SeekEndsWithNewEpochFrame ==
    published # NoFrame => published.tag = seek_seq

\* A frame the worker decoded before it handled the latest Seek command
\* has ended the seek, and the worker handled the command only afterwards.
C28_StaleFrameEndedSeek ==
    /\ ~seeking
    /\ published # NoFrame
    /\ published.tag < seek_seq
    /\ w_epoch = seek_seq

(***************************************************************************)
(* C29: the current frame of a player that is not seeking.                 *)
(***************************************************************************)
\* C29: once open() has returned, whenever seeking is false the queue
\* holds a current frame, so is_empty() is false, before and after the
\* get_display_frame call of an update() made at that moment.
C29_CurrentFrameUnlessSeeking ==
    (fpc # "open" /\ ~seeking)
        => /\ current_frame # NoFrame
           /\ ~is_empty(buffer, current_frame, video_chan)
           /\ LET r == get_display_frame(buffer, current_frame, video_chan,
                                         position(position_us))
              IN  ~is_empty(r.buffer, r.current, r.chan)

\* update() is about to make its end-of-stream check while Playing with
\* the clock within 0.1 s of the duration and no frame left in the buffer
\* or the channel: only the current frame keeps the queue from being empty.
C29_Witness ==
    /\ fpc = "ready"
    /\ ~seeking
    /\ state = "Playing"
    /\ position(position_us) >= Duration - EOS_MARGIN
    /\ buffer = <<>>
    /\ video_chan = <<>>
    /\ current_frame # NoFrame
    /\ at_eof

(***************************************************************************)
(* C30: the sink and the player state.                                     *)
(***************************************************************************)
\* C30: whenever seeking is false, the sink is playing if and only if the
\* state is Playing.
C30_SinkFollowsState ==
    ~seeking => (sink_playing <=> state = "Playing")

\* A seek made while Playing has been completed by update(), which
\* started the sink again.
C30_Witness ==
    /\ ~seeking
    /\ state = "Playing"
    /\ sink_playing
    /\ seek_seq = 2
    /\ published # NoFrame
    /\ ops_left = 1

(***************************************************************************)
(* C31: the audio buffer clear and the samples of the new epoch.  A batch  *)
(* in audio_buffer carries the number of the Seek command it was decoded   *)
(* under, so the batches numbered seek_seq were pushed after the worker    *)
(* performed the latest seek.                                              *)
(***************************************************************************)
\* C31: the pull that observes the clear flag never discards a batch the
\* worker pushed after it performed the latest seek.
C31_ClearKeepsNewEpochSamples ==
    [][(sink_playing /\ clear_buffer /\ ~clear_buffer')
         => \A i \in 1..Len(audio_buffer) : audio_buffer[i] # seek_seq]_vars

\* The sink plays with the clear flag raised while the buffer holds only
\* batches the worker pushed after the latest seek: the next pull discards
\* them all.
C31_NewEpochSamplesDoomed ==
    /\ sink_playing
    /\ ~seeking
    /\ clear_buffer
    /\ audio_buffer # <<>>
    /\ \A i \in 1..Len(audio_buffer) : audio_buffer[i] = seek_seq
    /\ w_epoch = seek_seq

(***************************************************************************)
(* C32: the worker's paused flag and the clock's.  A step of the worker    *)
(* that takes a Pause or Resume stands for both statements of its arm, so  *)
(* no state of the model lies between them.                                *)
(***************************************************************************)
\* C32: the worker's paused flag equals the clock's paused flag in every
\* state, and the clock's flag changes only in a step in which the worker
\* takes a Pause or Resume from the command channel, in its drain loop or
\* in its send loop, and sets both flags alike.
C32_PausedFlagsAgree ==
    /\ [](paused = clock_paused)
    /\ [][clock_paused' # clock_paused
            => /\ wpc \in {"drain", "poll"}
               /\ cmd_chan # <<>>
               /\ Head(cmd_chan).op \in {"Pause", "Resume"}
               /\ cmd_chan' = Tail(cmd_chan)
               /\ clock_paused' = (Head(cmd_chan).op = "Pause")
               /\ paused' = clock_paused']_vars

\* pause() was called and the worker took the Pause in its send loop:
\* both flags are set while it still holds its frame.
C32_Witness ==
    /\ paused
    /\ clock_paused
    /\ wpc = "send"
    /\ held # NoFrame
    /\ state = "Paused"
    /\ ops_left = 1

(***************************************************************************)
(* C33: the decoded video frames alive.                                    *)
(***************************************************************************)
\* The DecodedVideoFrame values in existence: in the lookahead buffer, in
\* the channel, the current frame and the frame the worker's send loop
\* holds.
FramesAlive ==
    Len(buffer) + Len(video_chan)
        + (IF current_frame # NoFrame THEN 1 ELSE 0)
        + (IF held # NoFrame THEN 1 ELSE 0)

\* C33: the lookahead buffer never holds more than max_buffer_size frames
\* and the channel never more than its capacity, so with the current frame
\* and the worker's held frame at most max_buffer_size + capacity + 2
\* frames are alive.
C33_FramesBounded ==
    /\ Len(buffer) <= MaxBufferSize
    /\ Len(video_chan) <= ChanCap
    /\ FramesAlive <= MaxBufferSize + ChanCap + 2

\* The facade has stopped consuming: the buffer and the channel are full,
\* a frame is current, and the worker retries its send with a frame in
\* hand; the bound is attained.
C33_Witness ==
    /\ Len(buffer) = MaxBufferSize
    /\ Len(video_chan) = ChanCap
    /\ FramesAlive = MaxBufferSize + ChanCap + 2
    /\ current_frame # NoFrame
    /\ held # NoFrame
    /\ wpc \in {"poll", "send"}

====
